---------------------------- MODULE Spec2Model ----------------------------
(***************************************************************************)
(* Model of the moderation bot of src/run.py and src/config.py.            *)
(*                                                                         *)
(* The bot runs on one asyncio event loop: a coroutine runs without        *)
(* interruption from one `await` to the next, so every action below is the *)
(* synchronous code between two suspension points of one coroutine.  A     *)
(* gateway call is issued at the end of one action and its outcome         *)
(* (success or exception) is the input of the action that resumes the      *)
(* coroutine.                                                              *)
(*                                                                         *)
(* Incoming updates are numbered 1..MaxEvents in the order the dispatcher  *)
(* hands them to handle_group_message.  Each update owns at most one       *)
(* send_group_notification task, one send_private_warning task and one     *)
(* delete_group_notification_after_unblock task, so all coroutines are     *)
(* indexed by the update that spawned them.                                *)
(***************************************************************************)
EXTENDS Integers, Sequences, FiniteSets, TLC

(***************************************************************************)
(* Bounds of the model.                                                    *)
(***************************************************************************)
MaxEvents == 2

Events == 1..MaxEvents

Users == {1, 2}

Chats == {10}

\* Instants at which the wall clock is observed (seconds).  The clock also
\* stops at every instant a sleeping deletion task is due.
Instants == {86400}

(***************************************************************************)
(* src/config.py                                                           *)
(***************************************************************************)
VIOLATION_WINDOW == 86400

PUNISHMENT_DURATIONS == (1 :> 300) @@ (2 :> 900) @@ (3 :> 3600) @@ (4 :> 86400)

\* Texts are sequences of one-character strings.
W_kot == <<"k", "o", "'", "t">>

W_ahmoq == <<"a", "h", "m", "o", "q">>

W_soz1 == <<"s", "o", "'", "z", "1">>

\* "so'z2" "so'kinish2" has no comma between the two literals: Python joins
\* them into one list element.
W_soz2sokinish2 ==
    <<"s", "o", "'", "z", "2", "s", "o", "'", "k", "i", "n", "i", "s", "h", "2">>

W_yomonsoz == <<"y", "o", "m", "o", "n", "s", "o", "'", "z">>

FORBIDDEN_WORDS == <<W_kot, W_ahmoq, W_soz1, W_soz2sokinish2, W_yomonsoz>>

(***************************************************************************)
(* str.lower() on the characters the model uses.                           *)
(***************************************************************************)
UpperToLower ==
    ("A" :> "a") @@ ("H" :> "h") @@ ("K" :> "k") @@ ("M" :> "m") @@
    ("O" :> "o") @@ ("Q" :> "q") @@ ("S" :> "s") @@ ("T" :> "t") @@
    ("Z" :> "z")

LowerChar(c) == IF c \in DOMAIN UpperToLower THEN UpperToLower[c] ELSE c

Lower(text) == [i \in 1..Len(text) |-> LowerChar(text[i])]

\* `word in text`: Python substring containment.
IsSubstring(word, text) ==
    \E i \in 0..(Len(text) - Len(word)) :
        \A j \in 1..Len(word) : text[i + j] = word[j]

\* ModerationBot.__init__: self.forbidden_words
forbidden_words == [i \in 1..Len(FORBIDDEN_WORDS) |-> Lower(FORBIDDEN_WORDS[i])]

None == <<>>

\* Mutant: the text is matched as written, without lower-casing.
contains_forbidden_word_case_sensitive(text) ==
    IF text = None \/ Len(text) = 0
    THEN <<FALSE, None>>
    ELSE LET hits == {i \in 1..Len(forbidden_words) :
                         IsSubstring(forbidden_words[i], text)}
         IN  IF hits = {}
             THEN <<FALSE, None>>
             ELSE <<TRUE, forbidden_words[CHOOSE i \in hits : \A k \in hits : i <= k]>>

\* ModerationBot.contains_forbidden_word: <<is_forbidden, word>>
contains_forbidden_word(text) ==
    IF text = None \/ Len(text) = 0
    THEN <<FALSE, None>>
    ELSE LET text_lower == Lower(text)
             hits == {i \in 1..Len(forbidden_words) :
                         IsSubstring(forbidden_words[i], text_lower)}
         IN  IF hits = {}
             THEN <<FALSE, None>>
             ELSE <<TRUE, forbidden_words[CHOOSE i \in hits : \A k \in hits : i <= k]>>

(***************************************************************************)
(* Violation ledger (pure parts).  uv is the user_violations map, t the    *)
(* value of time.time().                                                   *)
(***************************************************************************)
\* Mutant: a timestamp exactly VIOLATION_WINDOW old is kept.
clean_old_violations_inclusive(uv, user_id, t) ==
    LET Fresh(timestamp) == t - timestamp <= VIOLATION_WINDOW
    IN  [uv EXCEPT ![user_id] = SelectSeq(uv[user_id], Fresh)]

clean_old_violations(uv, user_id, t) ==
    LET Fresh(timestamp) == t - timestamp < VIOLATION_WINDOW
    IN  [uv EXCEPT ![user_id] = SelectSeq(uv[user_id], Fresh)]

\* <<ledger after the call, returned count>>
get_violation_count(uv, user_id, t) ==
    LET cleaned == clean_old_violations(uv, user_id, t)
    IN  <<cleaned, Len(cleaned[user_id])>>

\* Mutant: the new timestamp replaces the list instead of being appended.
add_violation_overwrite(uv, user_id, t) ==
    LET replaced == [uv EXCEPT ![user_id] = <<t>>]
    IN  get_violation_count(replaced, user_id, t)

\* <<ledger after the call, returned count>>
add_violation(uv, user_id, t) ==
    LET appended == [uv EXCEPT ![user_id] = Append(uv[user_id], t)]
    IN  get_violation_count(appended, user_id, t)

\* d[k] of a Python dict; a missing key raises KeyError, modelled as the
\* result -1 (no duration is negative).
DictGet(d, k) == IF k \in DOMAIN d THEN d[k] ELSE -1

\* Mutant: counts above 4 are looked up instead of saturating.
get_punishment_duration_unsaturated(violation_count) ==
    DictGet(PUNISHMENT_DURATIONS, violation_count)

get_punishment_duration(violation_count) ==
    IF violation_count <= 4
    THEN DictGet(PUNISHMENT_DURATIONS, violation_count)
    ELSE DictGet(PUNISHMENT_DURATIONS, 4)


(***************************************************************************)
(* State.                                                                  *)
(***************************************************************************)
VARIABLES
    now,                  \* time.time() and the event loop's clock, in seconds
    user_violations,      \* ModerationBot.user_violations: user -> timestamps
    admin_notifications,  \* ModerationBot.admin_notifications: a dict keyed by user
    handler,              \* handle_group_message coroutine of each update
    ntask,                \* send_group_notification task of each update
    wtask,                \* send_private_warning task of each update
    dtask,                \* delete_group_notification_after_unblock task
    gw,                   \* what the gateway was asked and what it answered
    next_message_id,      \* message id the gateway gives to the next notice
    probe                 \* arguments and results of the calls made by the
                          \* specifications of the pure components

vars == <<now, user_violations, admin_notifications, handler, ntask, wtask,
          dtask, gw, next_message_id, probe>>

NoUser == 0

\* message.text of the updates the model feeds to the handler.
Texts == {None,
          <<"o", "k">>,
          <<"K", "O", "'", "T">>,
          <<"x", "A", "h", "m", "o", "q">>}

IdleHandler ==
    [pc |-> "idle", user_id |-> NoUser, chat_id |-> 0, violation_count |-> 0,
     duration |-> 0, at |-> 0]

IdleDtask ==
    [pc |-> "none", user_id |-> NoUser, duration |-> 0, wake_at |-> 0,
     message_id |-> 0, chat_id |-> 0, key_error |-> FALSE]

IdleGw ==
    [msg_delete |-> "none", restrict |-> "none", restrict_duration |-> 0,
     notice_id |-> 0, answer |-> "none"]

MainInit ==
    /\ now = 0
    /\ user_violations = [u \in Users |-> <<>>]
    /\ admin_notifications = <<>>
    /\ handler = [e \in Events |-> IdleHandler]
    /\ ntask = [e \in Events |-> "none"]
    /\ wtask = [e \in Events |-> "none"]
    /\ dtask = [e \in Events |-> IdleDtask]
    /\ gw = [e \in Events |-> IdleGw]
    /\ next_message_id = 1

Init ==
    /\ MainInit
    /\ probe = <<>>

\* dict operations on admin_notifications
HasKey(d, k) == k \in DOMAIN d

SetKey(d, k, v) == [x \in (DOMAIN d) \cup {k} |-> IF x = k THEN v ELSE d[x]]

DelKey(d, k) == [x \in (DOMAIN d) \ {k} |-> d[x]]

\* Mutant: every text message of a known sender is recorded as a violation
\* before the text is matched.
HandleGroupMessageCountsAll(e, text, from_user, chat_id) ==
    /\ handler[e].pc = "idle"
    /\ IF e = 1 THEN TRUE ELSE handler[e - 1].pc # "idle"
    /\ IF text = None \/ from_user = NoUser
       THEN /\ handler' = [handler EXCEPT ![e].pc = "returned"]
            /\ UNCHANGED <<user_violations, gw>>
       ELSE LET found == contains_forbidden_word(text)
                added == add_violation(user_violations, from_user, now)
                violation_count == added[2]
                duration == get_punishment_duration(violation_count)
            IN  /\ user_violations' = added[1]
                /\ IF ~found[1]
                   THEN /\ handler' = [handler EXCEPT ![e].pc = "returned"]
                        /\ UNCHANGED gw
                   ELSE /\ handler' = [handler EXCEPT ![e] =
                               [pc |-> "await_delete", user_id |-> from_user,
                                chat_id |-> chat_id,
                                violation_count |-> violation_count,
                                duration |-> duration, at |-> now]]
                        /\ gw' = [gw EXCEPT ![e].msg_delete = "sent"]
    /\ UNCHANGED <<now, admin_notifications, ntask, wtask, dtask,
                   next_message_id, probe>>

(***************************************************************************)
(* handle_group_message, from entry to `await message.delete()`.           *)
(***************************************************************************)
HandleGroupMessage(e, text, from_user, chat_id) ==
    /\ handler[e].pc = "idle"
    /\ IF e = 1 THEN TRUE ELSE handler[e - 1].pc # "idle"
    /\ IF text = None
       THEN /\ handler' = [handler EXCEPT ![e].pc = "returned"]
            /\ UNCHANGED <<user_violations, gw>>
       ELSE LET found == contains_forbidden_word(text)
            IN  IF ~found[1] \/ from_user = NoUser
                THEN /\ handler' = [handler EXCEPT ![e].pc = "returned"]
                     /\ UNCHANGED <<user_violations, gw>>
                ELSE LET added == add_violation(user_violations, from_user, now)
                         violation_count == added[2]
                         duration == get_punishment_duration(violation_count)
                     IN  /\ user_violations' = added[1]
                         /\ handler' = [handler EXCEPT ![e] =
                                [pc |-> "await_delete", user_id |-> from_user,
                                 chat_id |-> chat_id,
                                 violation_count |-> violation_count,
                                 duration |-> duration, at |-> now]]
                         /\ gw' = [gw EXCEPT ![e].msg_delete = "sent"]
    /\ UNCHANGED <<now, admin_notifications, ntask, wtask, dtask,
                   next_message_id, probe>>

(***************************************************************************)
(* handle_private_message up to `await message.answer(...)`, and the       *)
(* return of that call.                                                    *)
(***************************************************************************)
HandlePrivateMessage(e) ==
    /\ handler[e].pc = "idle"
    /\ IF e = 1 THEN TRUE ELSE handler[e - 1].pc # "idle"
    /\ handler' = [handler EXCEPT ![e].pc = "await_answer"]
    /\ gw' = [gw EXCEPT ![e].answer = "sent"]
    /\ UNCHANGED <<now, user_violations, admin_notifications, ntask, wtask, dtask,
                   next_message_id, probe>>

PrivateAnswerReturns(e, ok) ==
    /\ handler[e].pc = "await_answer"
    /\ handler' = [handler EXCEPT ![e].pc = "answered"]
    /\ gw' = [gw EXCEPT ![e].answer = IF ok THEN "ok" ELSE "failed"]
    /\ UNCHANGED <<now, user_violations, admin_notifications, ntask, wtask, dtask,
                   next_message_id, probe>>

\* Mutant: the background tasks are created before restrict_user is awaited.
MessageDeleteReturnsStartsTasks(e, ok) ==
    /\ handler[e].pc = "await_delete"
    /\ handler' = [handler EXCEPT ![e].pc = "await_restrict"]
    /\ gw' = [gw EXCEPT ![e].msg_delete = IF ok THEN "ok" ELSE "failed",
                        ![e].restrict = "sent",
                        ![e].restrict_duration = handler[e].duration]
    /\ ntask' = [ntask EXCEPT ![e] = "sending"]
    /\ wtask' = [wtask EXCEPT ![e] = "sending"]
    /\ UNCHANGED <<now, user_violations, admin_notifications, dtask,
                   next_message_id, probe>>

\* Mutant: a failed message.delete() ends the handler.
MessageDeleteReturnsOrGivesUp(e, ok) ==
    /\ handler[e].pc = "await_delete"
    /\ IF ok
       THEN /\ handler' = [handler EXCEPT ![e].pc = "await_restrict"]
            /\ gw' = [gw EXCEPT ![e].msg_delete = "ok",
                                ![e].restrict = "sent",
                                ![e].restrict_duration = handler[e].duration]
       ELSE /\ handler' = [handler EXCEPT ![e].pc = "done"]
            /\ gw' = [gw EXCEPT ![e].msg_delete = "failed"]
    /\ UNCHANGED <<now, user_violations, admin_notifications, ntask, wtask, dtask,
                   next_message_id, probe>>

(***************************************************************************)
(* message.delete() returned or raised; restrict_user runs up to           *)
(* `await bot.restrict_chat_member(...)`.                                  *)
(***************************************************************************)
MessageDeleteReturns(e, ok) ==
    /\ handler[e].pc = "await_delete"
    /\ handler' = [handler EXCEPT ![e].pc = "await_restrict"]
    /\ gw' = [gw EXCEPT ![e].msg_delete = IF ok THEN "ok" ELSE "failed",
                        ![e].restrict = "sent",
                        ![e].restrict_duration = handler[e].duration]
    /\ UNCHANGED <<now, user_violations, admin_notifications, ntask, wtask, dtask,
                   next_message_id, probe>>

\* Mutant: a failed restriction takes the recorded violation back.
RestrictReturnsRollsBack(e, ok) ==
    /\ handler[e].pc = "await_restrict"
    /\ handler' = [handler EXCEPT ![e].pc = "done"]
    /\ gw' = [gw EXCEPT ![e].restrict = IF ok THEN "ok" ELSE "failed"]
    /\ IF ok
       THEN /\ ntask' = [ntask EXCEPT ![e] = "sending"]
            /\ wtask' = [wtask EXCEPT ![e] = "sending"]
            /\ UNCHANGED user_violations
       ELSE /\ UNCHANGED <<ntask, wtask>>
            /\ LET recorded == user_violations[handler[e].user_id]
               IN  user_violations' =
                     [user_violations EXCEPT ![handler[e].user_id] =
                        IF Len(recorded) = 0 THEN recorded
                        ELSE SubSeq(recorded, 1, Len(recorded) - 1)]
    /\ UNCHANGED <<now, admin_notifications, dtask, next_message_id, probe>>

\* Mutant: the background tasks are created whatever restrict_user returned.
RestrictReturnsUngated(e, ok) ==
    /\ handler[e].pc = "await_restrict"
    /\ handler' = [handler EXCEPT ![e].pc = "done"]
    /\ gw' = [gw EXCEPT ![e].restrict = IF ok THEN "ok" ELSE "failed"]
    /\ ntask' = [ntask EXCEPT ![e] = "sending"]
    /\ wtask' = [wtask EXCEPT ![e] = "sending"]
    /\ UNCHANGED <<now, user_violations, admin_notifications, dtask,
                   next_message_id, probe>>

(***************************************************************************)
(* restrict_chat_member returned or raised: restrict_user returns `ok`,    *)
(* and on success the handler creates the two background tasks, which run  *)
(* up to their `await bot.send_message(...)`.                              *)
(***************************************************************************)
RestrictReturns(e, ok) ==
    /\ handler[e].pc = "await_restrict"
    /\ handler' = [handler EXCEPT ![e].pc = "done"]
    /\ gw' = [gw EXCEPT ![e].restrict = IF ok THEN "ok" ELSE "failed"]
    /\ IF ok
       THEN /\ ntask' = [ntask EXCEPT ![e] = "sending"]
            /\ wtask' = [wtask EXCEPT ![e] = "sending"]
       ELSE UNCHANGED <<ntask, wtask>>
    /\ UNCHANGED <<now, user_violations, admin_notifications, dtask,
                   next_message_id, probe>>

\* Mutant: the entry is stored and the deletion task created before the
\* outcome of bot.send_message is known.
GroupSendReturnsStoresAnyway(e, ok) ==
    /\ ntask[e] = "sending"
    /\ ntask' = [ntask EXCEPT ![e] = IF ok THEN "done" ELSE "failed"]
    /\ admin_notifications' =
           SetKey(admin_notifications, handler[e].user_id,
                  [message_id |-> IF ok THEN next_message_id ELSE 0,
                   chat_id |-> handler[e].chat_id,
                   duration |-> handler[e].duration,
                   start_time |-> now])
    /\ dtask' = [dtask EXCEPT ![e] =
           [IdleDtask EXCEPT !.pc = "sleeping",
                             !.user_id = handler[e].user_id,
                             !.duration = handler[e].duration,
                             !.wake_at = now + handler[e].duration]]
    /\ gw' = [gw EXCEPT ![e].notice_id = IF ok THEN next_message_id ELSE 0]
    /\ next_message_id' = IF ok THEN next_message_id + 1 ELSE next_message_id
    /\ UNCHANGED <<now, user_violations, handler, wtask, probe>>

\* Mutant: an entry already stored for the user is kept (dict.setdefault).
GroupSendReturnsKeepsOldEntry(e, ok) ==
    /\ ntask[e] = "sending"
    /\ IF ok
       THEN /\ ntask' = [ntask EXCEPT ![e] = "done"]
            /\ admin_notifications' =
                   IF HasKey(admin_notifications, handler[e].user_id)
                   THEN admin_notifications
                   ELSE SetKey(admin_notifications, handler[e].user_id,
                               [message_id |-> next_message_id,
                                chat_id |-> handler[e].chat_id,
                                duration |-> handler[e].duration,
                                start_time |-> now])
            /\ dtask' = [dtask EXCEPT ![e] =
                   [IdleDtask EXCEPT !.pc = "sleeping",
                                     !.user_id = handler[e].user_id,
                                     !.duration = handler[e].duration,
                                     !.wake_at = now + handler[e].duration]]
            /\ gw' = [gw EXCEPT ![e].notice_id = next_message_id]
            /\ next_message_id' = next_message_id + 1
       ELSE /\ ntask' = [ntask EXCEPT ![e] = "failed"]
            /\ UNCHANGED <<admin_notifications, dtask, gw, next_message_id>>
    /\ UNCHANGED <<now, user_violations, handler, wtask, probe>>

\* Mutant: a failed group notice cancels the private warning in flight.
GroupSendReturnsCancelsWarning(e, ok) ==
    /\ ntask[e] = "sending"
    /\ IF ok
       THEN /\ ntask' = [ntask EXCEPT ![e] = "done"]
            /\ admin_notifications' =
                   SetKey(admin_notifications, handler[e].user_id,
                          [message_id |-> next_message_id,
                           chat_id |-> handler[e].chat_id,
                           duration |-> handler[e].duration,
                           start_time |-> now])
            /\ dtask' = [dtask EXCEPT ![e] =
                   [IdleDtask EXCEPT !.pc = "sleeping",
                                     !.user_id = handler[e].user_id,
                                     !.duration = handler[e].duration,
                                     !.wake_at = now + handler[e].duration]]
            /\ gw' = [gw EXCEPT ![e].notice_id = next_message_id]
            /\ next_message_id' = next_message_id + 1
            /\ UNCHANGED wtask
       ELSE /\ ntask' = [ntask EXCEPT ![e] = "failed"]
            /\ wtask' = [wtask EXCEPT ![e] =
                             IF wtask[e] = "sending" THEN "failed" ELSE wtask[e]]
            /\ UNCHANGED <<admin_notifications, dtask, gw, next_message_id>>
    /\ UNCHANGED <<now, user_violations, handler, probe>>

\* Mutant: the deletion task always sleeps for the first level's duration.
GroupSendReturnsFixedDelay(e, ok) ==
    /\ ntask[e] = "sending"
    /\ IF ok
       THEN /\ ntask' = [ntask EXCEPT ![e] = "done"]
            /\ admin_notifications' =
                   SetKey(admin_notifications, handler[e].user_id,
                          [message_id |-> next_message_id,
                           chat_id |-> handler[e].chat_id,
                           duration |-> handler[e].duration,
                           start_time |-> now])
            /\ dtask' = [dtask EXCEPT ![e] =
                   [IdleDtask EXCEPT !.pc = "sleeping",
                                     !.user_id = handler[e].user_id,
                                     !.duration = PUNISHMENT_DURATIONS[1],
                                     !.wake_at = now + PUNISHMENT_DURATIONS[1]]]
            /\ gw' = [gw EXCEPT ![e].notice_id = next_message_id]
            /\ next_message_id' = next_message_id + 1
       ELSE /\ ntask' = [ntask EXCEPT ![e] = "failed"]
            /\ UNCHANGED <<admin_notifications, dtask, gw, next_message_id>>
    /\ UNCHANGED <<now, user_violations, handler, wtask, probe>>

\* Mutant: the entry is stored but no deletion task is created.
GroupSendReturnsNoTimer(e, ok) ==
    /\ ntask[e] = "sending"
    /\ IF ok
       THEN /\ ntask' = [ntask EXCEPT ![e] = "done"]
            /\ admin_notifications' =
                   SetKey(admin_notifications, handler[e].user_id,
                          [message_id |-> next_message_id,
                           chat_id |-> handler[e].chat_id,
                           duration |-> handler[e].duration,
                           start_time |-> now])
            /\ gw' = [gw EXCEPT ![e].notice_id = next_message_id]
            /\ next_message_id' = next_message_id + 1
            /\ UNCHANGED dtask
       ELSE /\ ntask' = [ntask EXCEPT ![e] = "failed"]
            /\ UNCHANGED <<admin_notifications, dtask, gw, next_message_id>>
    /\ UNCHANGED <<now, user_violations, handler, wtask, probe>>

(***************************************************************************)
(* send_group_notification after `await bot.send_message(...)`: on success *)
(* the entry is stored and the deletion task created; the deletion task    *)
(* runs up to `await asyncio.sleep(duration)`.                             *)
(***************************************************************************)
GroupSendReturns(e, ok) ==
    /\ ntask[e] = "sending"
    /\ IF ok
       THEN /\ ntask' = [ntask EXCEPT ![e] = "done"]
            /\ admin_notifications' =
                   SetKey(admin_notifications, handler[e].user_id,
                          [message_id |-> next_message_id,
                           chat_id |-> handler[e].chat_id,
                           duration |-> handler[e].duration,
                           start_time |-> now])
            /\ dtask' = [dtask EXCEPT ![e] =
                   [IdleDtask EXCEPT !.pc = "sleeping",
                                     !.user_id = handler[e].user_id,
                                     !.duration = handler[e].duration,
                                     !.wake_at = now + handler[e].duration]]
            /\ gw' = [gw EXCEPT ![e].notice_id = next_message_id]
            /\ next_message_id' = next_message_id + 1
       ELSE /\ ntask' = [ntask EXCEPT ![e] = "failed"]
            /\ UNCHANGED <<admin_notifications, dtask, gw, next_message_id>>
    /\ UNCHANGED <<now, user_violations, handler, wtask, probe>>

(***************************************************************************)
(* send_private_warning after `await bot.send_message(...)`.               *)
(***************************************************************************)
PrivateSendReturns(e, ok) ==
    /\ wtask[e] = "sending"
    /\ wtask' = [wtask EXCEPT ![e] = IF ok THEN "done" ELSE "failed"]
    /\ UNCHANGED <<now, user_violations, admin_notifications, handler, ntask, dtask,
                   gw, next_message_id, probe>>

\* Mutant: the task deletes the notice it was created for, not the stored one.
SleepReturnsOwnNotice(e) ==
    /\ dtask[e].pc = "sleeping"
    /\ now >= dtask[e].wake_at
    /\ IF HasKey(admin_notifications, dtask[e].user_id)
       THEN dtask' = [dtask EXCEPT ![e].pc = "await_delete",
                                   ![e].message_id = gw[e].notice_id,
                                   ![e].chat_id = handler[e].chat_id]
       ELSE dtask' = [dtask EXCEPT ![e].pc = "done"]
    /\ UNCHANGED <<now, user_violations, admin_notifications, handler, ntask, wtask,
                   gw, next_message_id, probe>>

(***************************************************************************)
(* delete_group_notification_after_unblock after the sleep, up to          *)
(* `await bot.delete_message(...)` or to the end when no entry is stored.  *)
(***************************************************************************)
SleepReturns(e) ==
    /\ dtask[e].pc = "sleeping"
    /\ now >= dtask[e].wake_at
    /\ IF HasKey(admin_notifications, dtask[e].user_id)
       THEN LET notification_data == admin_notifications[dtask[e].user_id]
            IN  dtask' = [dtask EXCEPT ![e].pc = "await_delete",
                                       ![e].message_id = notification_data.message_id,
                                       ![e].chat_id = notification_data.chat_id]
       ELSE dtask' = [dtask EXCEPT ![e].pc = "done"]
    /\ UNCHANGED <<now, user_violations, admin_notifications, handler, ntask, wtask,
                   gw, next_message_id, probe>>

\* Mutant: the KeyError of `del` is not caught and ends the task abnormally.
NoticeDeleteReturnsUncaught(e, ok) ==
    /\ dtask[e].pc = "await_delete"
    /\ IF HasKey(admin_notifications, dtask[e].user_id)
       THEN /\ admin_notifications' = DelKey(admin_notifications, dtask[e].user_id)
            /\ dtask' = [dtask EXCEPT ![e].pc = IF ok THEN "done" ELSE "done_failed"]
       ELSE /\ UNCHANGED admin_notifications
            /\ dtask' = [dtask EXCEPT ![e].pc = "crashed",
                                       ![e].key_error = TRUE]
    /\ UNCHANGED <<now, user_violations, handler, ntask, wtask, gw,
                   next_message_id, probe>>

\* Mutant: the entry is removed only when the gateway deleted the message.
NoticeDeleteReturnsKeepOnFailure(e, ok) ==
    /\ dtask[e].pc = "await_delete"
    /\ IF ok /\ HasKey(admin_notifications, dtask[e].user_id)
       THEN /\ admin_notifications' = DelKey(admin_notifications, dtask[e].user_id)
            /\ dtask' = [dtask EXCEPT ![e].pc = "done"]
       ELSE /\ UNCHANGED admin_notifications
            /\ dtask' = [dtask EXCEPT ![e].pc = IF ok THEN "done" ELSE "done_failed"]
    /\ UNCHANGED <<now, user_violations, handler, ntask, wtask, gw,
                   next_message_id, probe>>

(***************************************************************************)
(* bot.delete_message returned or raised (caught at line 187); then        *)
(* `del self.admin_notifications[user_id]`, whose KeyError is caught at    *)
(* line 194.                                                               *)
(***************************************************************************)
NoticeDeleteReturns(e, ok) ==
    /\ dtask[e].pc = "await_delete"
    /\ IF HasKey(admin_notifications, dtask[e].user_id)
       THEN /\ admin_notifications' = DelKey(admin_notifications, dtask[e].user_id)
            /\ dtask' = [dtask EXCEPT ![e].pc = IF ok THEN "done" ELSE "done_failed"]
       ELSE /\ UNCHANGED admin_notifications
            /\ dtask' = [dtask EXCEPT ![e].pc = IF ok THEN "done" ELSE "done_failed",
                                       ![e].key_error = TRUE]
    /\ UNCHANGED <<now, user_violations, handler, ntask, wtask, gw,
                   next_message_id, probe>>

(***************************************************************************)
(* The clock advances to a later observation instant or to the instant a   *)
(* sleeping deletion task is due.                                          *)
(***************************************************************************)
DueInstants == {dtask[e].wake_at : e \in {x \in Events : dtask[x].pc = "sleeping"}}

Tick(t) ==
    /\ t > now
    /\ now' = t
    /\ UNCHANGED <<user_violations, admin_notifications, handler, ntask, wtask,
                   dtask, gw, next_message_id, probe>>

Next ==
    \/ \E e \in Events, text \in Texts, from_user \in Users \cup {NoUser},
          chat_id \in Chats : HandleGroupMessage(e, text, from_user, chat_id)
    \/ \E e \in Events : HandlePrivateMessage(e)
    \/ \E e \in Events, ok \in BOOLEAN : PrivateAnswerReturns(e, ok)
    \/ \E e \in Events, ok \in BOOLEAN : MessageDeleteReturns(e, ok)
    \/ \E e \in Events, ok \in BOOLEAN : RestrictReturns(e, ok)
    \/ \E e \in Events, ok \in BOOLEAN : GroupSendReturns(e, ok)
    \/ \E e \in Events, ok \in BOOLEAN : PrivateSendReturns(e, ok)
    \/ \E e \in Events : SleepReturns(e)
    \/ \E e \in Events, ok \in BOOLEAN : NoticeDeleteReturns(e, ok)
    \/ \E t \in Instants \cup DueInstants : Tick(t)

Spec == Init /\ [][Next]_vars

(***************************************************************************)
(* Timers fire and gateway calls return: every step other than the arrival *)
(* of an update is taken if it stays possible.                             *)
(***************************************************************************)
Progress ==
    \/ \E e \in Events, ok \in BOOLEAN : PrivateAnswerReturns(e, ok)
    \/ \E e \in Events, ok \in BOOLEAN : MessageDeleteReturns(e, ok)
    \/ \E e \in Events, ok \in BOOLEAN : RestrictReturns(e, ok)
    \/ \E e \in Events, ok \in BOOLEAN : GroupSendReturns(e, ok)
    \/ \E e \in Events, ok \in BOOLEAN : PrivateSendReturns(e, ok)
    \/ \E e \in Events : SleepReturns(e)
    \/ \E e \in Events, ok \in BOOLEAN : NoticeDeleteReturns(e, ok)
    \/ \E t \in DueInstants : Tick(t)

FairSpec == Spec /\ WF_vars(Progress)

(***************************************************************************)
(* The punishment policy on its own: get_punishment_duration applied to    *)
(* two counts drawn from 1..MaxCount.                                      *)
(***************************************************************************)
MaxCount == 10

PolicyInit ==
    /\ MainInit
    /\ probe \in [pc : {"args"}, c1 : 1..MaxCount, c2 : 1..MaxCount,
                   d1 : {0}, d2 : {0}]

PolicyApply ==
    /\ probe.pc = "args"
    /\ probe' = [probe EXCEPT !.pc = "applied",
                              !.d1 = get_punishment_duration(probe.c1),
                              !.d2 = get_punishment_duration(probe.c2)]
    /\ UNCHANGED <<now, user_violations, admin_notifications, handler, ntask,
                   wtask, dtask, gw, next_message_id>>

PolicyNext == PolicyApply

SpecPolicy == PolicyInit /\ [][PolicyNext]_vars

(***************************************************************************)
(* The term matcher on its own: contains_forbidden_word applied to a text  *)
(* made of up to MaxPieces of the pieces below.                            *)
(***************************************************************************)
MaxPieces == 2

MatchPieces ==
    {<<>>,
     <<"x">>,
     <<"k", "o", "'">>,
     <<"K", "O", "'", "T">>,
     <<"k", "o", "'", "t">>,
     <<"A", "h", "m", "o", "q">>,
     <<"s", "o", "'", "z", "1">>,
     <<"s", "o", "'", "z", "2">>,
     <<"s", "o", "'", "k", "i", "n", "i", "s", "h", "2">>,
     <<"y", "o", "m", "o", "n", "S", "O", "'", "Z">>}

RECURSIVE Concat(_)
Concat(pieces) ==
    IF Len(pieces) = 0 THEN <<>> ELSE Head(pieces) \o Concat(Tail(pieces))

MatchTexts == {Concat(ps) : ps \in [1..MaxPieces -> MatchPieces]}

MatchInit ==
    /\ MainInit
    /\ probe \in [pc : {"args"}, text : MatchTexts, ret : {<<FALSE, None>>}]

MatchApply ==
    /\ probe.pc = "args"
    /\ probe' = [probe EXCEPT !.pc = "applied",
                              !.ret = contains_forbidden_word(probe.text)]
    /\ UNCHANGED <<now, user_violations, admin_notifications, handler, ntask,
                   wtask, dtask, gw, next_message_id>>

MatchNext == MatchApply

SpecMatch == MatchInit /\ [][MatchNext]_vars

(***************************************************************************)
(* The violation ledger on its own: add_violation and get_violation_count  *)
(* called for any user at any of the instants below.  probe.recorded keeps *)
(* every timestamp ever recorded (it is never pruned); probe.ret is the    *)
(* value the last call returned and probe.at the time of that call.        *)
(***************************************************************************)
MaxRecords == 3

LedgerInstants == {1, 86399, 86400, 86401, 172800}

LedgerInit ==
    /\ MainInit
    /\ probe = [recorded |-> [u \in Users |-> <<>>], op |-> "none",
                user_id |-> NoUser, ret |-> 0, at |-> 0]

LedgerFrame ==
    UNCHANGED <<admin_notifications, handler, ntask, wtask, dtask, gw,
                next_message_id>>

LedgerRecord(user_id) ==
    /\ Cardinality({p \in Users \X (1..MaxRecords) :
                        p[2] <= Len(probe.recorded[p[1]])}) < MaxRecords
    /\ LET added == add_violation(user_violations, user_id, now)
       IN  /\ user_violations' = added[1]
           /\ probe' = [probe EXCEPT
                  !.recorded[user_id] = Append(probe.recorded[user_id], now),
                  !.op = "record", !.user_id = user_id, !.ret = added[2],
                  !.at = now]
    /\ UNCHANGED now
    /\ LedgerFrame

LedgerCount(user_id) ==
    /\ LET counted == get_violation_count(user_violations, user_id, now)
       IN  /\ user_violations' = counted[1]
           /\ probe' = [probe EXCEPT
                  !.op = "count", !.user_id = user_id, !.ret = counted[2],
                  !.at = now]
    /\ UNCHANGED now
    /\ LedgerFrame

LedgerTick(t) ==
    /\ t > now
    /\ now' = t
    /\ UNCHANGED <<user_violations, probe>>
    /\ LedgerFrame

LedgerNext ==
    \/ \E user_id \in Users : LedgerRecord(user_id)
    \/ \E user_id \in Users : LedgerCount(user_id)
    \/ \E t \in LedgerInstants : LedgerTick(t)

SpecLedger == LedgerInit /\ [][LedgerNext]_vars

(***************************************************************************)
(* Properties of the moderation flows (specification Spec).                *)
(***************************************************************************)
\* The update was moderated: the handler recorded a violation for it.
Moderated(e) == handler[e].pc \in {"await_delete", "await_restrict", "done"}

\* No coroutine is suspended: every handler and every task has run to its end.
AllFlowsFinished ==
    \A e \in Events :
        /\ handler[e].pc \in {"idle", "returned", "answered", "done"}
        /\ ntask[e] # "sending"
        /\ wtask[e] # "sending"
        /\ dtask[e].pc \notin {"sleeping", "await_delete"}

\* The gateway was asked to delete notice message m.
DeleteRequested(m) ==
    \E f \in Events :
        /\ dtask[f].pc \in {"await_delete", "done", "done_failed"}
        /\ dtask[f].message_id = m

\* C1: every group notice that was posted has been the target of a gateway
\* delete-message request by the time all timers have fired and all gateway
\* calls have returned.
C1_EveryPostedNoticeDeleted ==
    AllFlowsFinished =>
        \A e \in Events : gw[e].notice_id # 0 => DeleteRequested(gw[e].notice_id)

ModeratedOf(u) == {e \in Events : Moderated(e) /\ handler[e].user_id = u}

AllInsideWindow(evs) ==
    \A a \in evs, b \in evs : handler[a].at - handler[b].at < VIOLATION_WINDOW

\* C2: violations of one user that all lie inside the rolling window get the
\* counts 1..k in the order they were recorded, whatever the interleaving of
\* their flows; the ledger then holds k timestamps, and the event that got
\* count 2 uses 900 seconds for its restriction, its notice and its timer.
C2_ConcurrentCounts ==
    \A u \in Users :
        LET evs == ModeratedOf(u)
        IN  AllInsideWindow(evs) =>
              /\ Len(user_violations[u]) = Cardinality(evs)
              /\ \A e \in evs :
                    /\ handler[e].violation_count =
                          Cardinality({f \in evs : f <= e})
                    /\ handler[e].violation_count = 2 =>
                          /\ handler[e].duration = 900
                          /\ gw[e].restrict # "none" =>
                                gw[e].restrict_duration = 900
                          /\ dtask[e].pc # "none" => dtask[e].duration = 900
                          /\ ( /\ HasKey(admin_notifications, u)
                               /\ gw[e].notice_id # 0
                               /\ admin_notifications[u].message_id = gw[e].notice_id )
                             => admin_notifications[u].duration = 900

\* Two violations of one user in flight at once: the first handler is still
\* suspended in message.delete() while the second has posted its notice.
C2_Witness ==
    /\ handler[1].pc = "await_delete"
    /\ Moderated(2)
    /\ handler[2].user_id = handler[1].user_id
    /\ handler[1].violation_count = 1
    /\ handler[2].violation_count = 2
    /\ gw[2].restrict_duration = 900
    /\ gw[2].notice_id # 0
    /\ HasKey(admin_notifications, handler[2].user_id)
    /\ admin_notifications[handler[2].user_id].duration = 900

\* C3: when a deletion task wakes up and the entry stored for its user is
\* not the notice the task was created for, the task asks the gateway to
\* delete the message of the stored entry.
C3_OldTimerDeletesStoredNotice ==
    [][\A e \in Events :
          ( /\ dtask[e].pc = "sleeping"
            /\ dtask'[e].pc # "sleeping"
            /\ HasKey(admin_notifications, dtask[e].user_id)
            /\ admin_notifications[dtask[e].user_id].message_id # gw[e].notice_id )
          => /\ dtask'[e].pc = "await_delete"
             /\ dtask'[e].message_id =
                   admin_notifications[dtask[e].user_id].message_id
             /\ dtask'[e].chat_id =
                   admin_notifications[dtask[e].user_id].chat_id
             /\ dtask'[e].message_id # gw[e].notice_id]_vars

\* The task of the first notice has asked for the deletion of a later notice.
C3_Witness ==
    \E e \in Events :
        /\ dtask[e].pc = "await_delete"
        /\ gw[e].notice_id # 0
        /\ dtask[e].message_id > gw[e].notice_id

\* C6: when restrict_user fails for an update, that update gets no group
\* notice, no private warning, no stored entry and no deletion task, and the
\* failing step leaves the table and all deletion tasks as they were.
C6_FailedRestrictionSkipsAll ==
    [][\A e \in Events :
          gw'[e].restrict = "failed" =>
            /\ ntask'[e] = "none"
            /\ wtask'[e] = "none"
            /\ dtask'[e].pc = "none"
            /\ gw'[e].notice_id = 0
            /\ handler'[e].pc = "done"
            /\ gw[e].restrict = "sent" =>
                  /\ admin_notifications' = admin_notifications
                  /\ dtask' = dtask
                  /\ ntask' = ntask
                  /\ wtask' = wtask]_vars

\* A restriction failed while the same user has a notice of another update
\* pending.
C6_Witness ==
    \E e \in Events :
        /\ gw[e].restrict = "failed"
        /\ handler[e].pc = "done"
        /\ HasKey(admin_notifications, handler[e].user_id)

\* The only moderated update of its user.
Isolated(e) == ModeratedOf(handler[e].user_id) = {e}

\* C7: the duration passed to restrict-user, the duration stored in the
\* entry and the delay of the deletion task all equal
\* get_punishment_duration(count) for the count add_violation returned to
\* the same update, and the task does not wake up before that delay has
\* passed; an isolated first offence uses 300 seconds and its task asks for
\* the deletion of its own notice no earlier than 300 seconds after posting.
C7_OneDurationPerEvent ==
    [][\A e \in Events :
          LET d == get_punishment_duration(handler'[e].violation_count)
              u == handler'[e].user_id
          IN  Moderated(e)' =>
                /\ handler'[e].duration = d
                /\ handler'[e].violation_count = 1 => d = 300
                /\ gw'[e].restrict # "none" => gw'[e].restrict_duration = d
                /\ (dtask[e].pc = "none" /\ dtask'[e].pc # "none") =>
                      /\ dtask'[e].pc = "sleeping"
                      /\ dtask'[e].duration = d
                      /\ dtask'[e].wake_at = now + d
                      /\ HasKey(admin_notifications', u)
                      /\ admin_notifications'[u].duration = d
                      /\ admin_notifications'[u].start_time = now
                      /\ admin_notifications'[u].message_id = gw'[e].notice_id
                /\ dtask'[e].pc # "none" => dtask'[e].wake_at - dtask'[e].duration >= 0
                /\ (dtask[e].pc = "sleeping" /\ dtask'[e].pc # "sleeping") =>
                      /\ now >= dtask[e].wake_at
                      /\ Isolated(e) =>
                            /\ dtask'[e].pc = "await_delete"
                            /\ dtask'[e].message_id = gw[e].notice_id
                            /\ now >= admin_notifications[u].start_time + d]_vars

\* An isolated first offence with every gateway call succeeding: restricted
\* for 300 seconds, notice posted at 0 and deleted at 300.
C7_Witness ==
    \E e \in Events :
        /\ Isolated(e)
        /\ handler[e].violation_count = 1
        /\ gw[e].msg_delete = "ok"
        /\ gw[e].restrict = "ok"
        /\ gw[e].restrict_duration = 300
        /\ wtask[e] = "done"
        /\ dtask[e].pc = "done"
        /\ dtask[e].message_id = gw[e].notice_id
        /\ dtask[e].wake_at = 300
        /\ now = 300

\* C8: a deletion task that wakes up and finds an entry for its user asks the
\* gateway to delete that entry's message and, when the call returns or
\* fails, leaves the user without an entry; one that finds no entry makes no
\* gateway call and changes nothing but its own position.
C8_DeferredAction ==
    [][\A e \in Events :
          LET u == dtask[e].user_id
          IN  /\ (dtask[e].pc = "sleeping" /\ dtask'[e].pc # "sleeping") =>
                    IF HasKey(admin_notifications, u)
                    THEN /\ dtask'[e].pc = "await_delete"
                         /\ dtask'[e].message_id = admin_notifications[u].message_id
                         /\ dtask'[e].chat_id = admin_notifications[u].chat_id
                         /\ admin_notifications' = admin_notifications
                    ELSE /\ dtask' = [dtask EXCEPT ![e].pc = "done"]
                         /\ dtask'[e].message_id = 0
                         /\ UNCHANGED <<now, user_violations, admin_notifications,
                                        handler, ntask, wtask, gw, next_message_id>>
              /\ (dtask[e].pc = "await_delete" /\ dtask'[e].pc # "await_delete") =>
                    /\ dtask'[e].pc \in {"done", "done_failed"}
                    /\ ~HasKey(admin_notifications', u)
                    /\ \A v \in Users \ {u} :
                          /\ HasKey(admin_notifications', v) =
                                HasKey(admin_notifications, v)
                          /\ HasKey(admin_notifications, v) =>
                                admin_notifications'[v] = admin_notifications[v]]_vars

\* The gateway failed to delete the notice and the entry is gone, while a
\* second task of the same user has found no entry.
C8_Witness ==
    \E e \in Events, f \in Events :
        /\ dtask[e].pc = "done_failed"
        /\ ~dtask[e].key_error
        /\ dtask[f].pc = "done"
        /\ dtask[f].message_id = 0
        /\ dtask[f].user_id = dtask[e].user_id
        /\ ~HasKey(admin_notifications, dtask[e].user_id)

\* A user's entry as a state: "NONE" or "PENDING".
EntryState(d, u) == IF HasKey(d, u) THEN "PENDING" ELSE "NONE"

\* This step is send_group_notification storing the notice of an update of u.
PublishStep(u) ==
    \E e \in Events :
        /\ handler[e].user_id = u
        /\ ntask[e] = "sending"
        /\ ntask'[e] = "done"
        /\ gw'[e].notice_id # 0
        /\ admin_notifications'[u].message_id = gw'[e].notice_id

\* This step is a deletion task of u returning from the gateway delete call.
DeferredStep(u) ==
    \E e \in Events :
        /\ dtask[e].user_id = u
        /\ dtask[e].pc = "await_delete"
        /\ dtask'[e].pc \in {"done", "done_failed"}

EntryTransitions ==
    \A u \in Users :
        LET old == EntryState(admin_notifications, u)
            new == EntryState(admin_notifications', u)
        IN  /\ (old = "NONE" /\ new = "PENDING") => PublishStep(u)
            /\ (old = "PENDING" /\ new = "NONE") => DeferredStep(u)
            /\ ( /\ old = "PENDING"
                 /\ new = "PENDING"
                 /\ admin_notifications'[u] # admin_notifications[u] )
               => PublishStep(u)

\* C9: with finitely many violations, timers firing and gateway calls
\* returning, every user's entry is eventually absent for good; an entry
\* appears or is replaced only by a publish and disappears only by a deletion
\* task.
C9_EntriesEventuallyGone ==
    /\ <>[](\A u \in Users : EntryState(admin_notifications, u) = "NONE")
    /\ [][EntryTransitions]_vars

\* An entry was replaced by a second publish and later removed by a task.
C9_Witness ==
    \E e \in Events, f \in Events :
        /\ e # f
        /\ handler[e].user_id = handler[f].user_id
        /\ gw[e].notice_id # 0
        /\ gw[f].notice_id # 0
        /\ dtask[e].pc \in {"done", "done_failed"}
        /\ dtask[e].message_id = gw[f].notice_id
        /\ EntryState(admin_notifications, handler[e].user_id) = "NONE"

\* C10: when message.delete() fails the handler still asks the gateway to
\* restrict the user for the duration computed for the update, and after a
\* successful restriction the notice task and the warning task are started.
C10_DeleteFailureIsNotFatal ==
    \A e \in Events :
        gw[e].msg_delete = "failed" =>
            /\ handler[e].pc \in {"await_restrict", "done"}
            /\ gw[e].restrict \in {"sent", "ok", "failed"}
            /\ gw[e].restrict_duration =
                  get_punishment_duration(handler[e].violation_count)
            /\ gw[e].restrict = "ok" => (ntask[e] # "none" /\ wtask[e] # "none")

\* The offending message could not be deleted, the restriction succeeded and
\* both the notice and the warning were sent.
C10_Witness ==
    \E e \in Events :
        /\ gw[e].msg_delete = "failed"
        /\ gw[e].restrict = "ok"
        /\ handler[e].violation_count = 2
        /\ gw[e].restrict_duration = 900
        /\ ntask[e] = "done"
        /\ wtask[e] = "done"

\* C11: after a successful restriction the notice task and the warning task
\* are started together and then run independently: the step that ends one
\* leaves the other as it was, a notice that was posted is stored and armed
\* whatever became of the warning, and a task that has ended (sent or
\* failed) never sends again.
C11_BranchesIndependent ==
    [][\A e \in Events :
          /\ (ntask[e] = "none" /\ ntask'[e] # "none") =>
                /\ ntask'[e] = "sending"
                /\ wtask[e] = "none"
                /\ wtask'[e] = "sending"
          /\ (wtask[e] = "none" /\ wtask'[e] # "none") =>
                /\ wtask'[e] = "sending"
                /\ ntask'[e] = "sending"
          /\ (ntask[e] = "sending" /\ ntask'[e] # "sending") =>
                /\ wtask' = wtask
                /\ ntask'[e] \in {"done", "failed"}
                /\ ntask'[e] = "done" =>
                      /\ HasKey(admin_notifications', handler[e].user_id)
                      /\ admin_notifications'[handler[e].user_id].message_id =
                            gw'[e].notice_id
                      /\ dtask'[e].pc = "sleeping"
          /\ (wtask[e] = "sending" /\ wtask'[e] # "sending") =>
                /\ wtask'[e] \in {"done", "failed"}
                /\ ntask' = ntask
                /\ admin_notifications' = admin_notifications
                /\ dtask' = dtask
                /\ gw' = gw
          /\ ntask[e] \in {"done", "failed"} => ntask'[e] = ntask[e]
          /\ wtask[e] \in {"done", "failed"} => wtask'[e] = wtask[e]
          /\ gw[e].notice_id # 0 => gw'[e].notice_id = gw[e].notice_id]_vars

\* One update whose warning failed before its notice was posted, stored and
\* armed, and another whose notice failed before its warning was sent.
C11_Witness ==
    \E e \in Events, f \in Events :
        /\ wtask[e] = "failed"
        /\ ntask[e] = "done"
        /\ dtask[e].pc = "sleeping"
        /\ HasKey(admin_notifications, handler[e].user_id)
        /\ admin_notifications[handler[e].user_id].message_id = gw[e].notice_id
        /\ ntask[f] = "failed"
        /\ wtask[f] = "done"

\* Position of an update's flow: 0 nothing done, 1 violation recorded and
\* delete-message requested, 2 delete-message returned and restrict-user
\* requested, 3 restrict-user returned.
FlowStage(g) ==
    IF g.restrict \in {"ok", "failed"} THEN 3
    ELSE IF g.restrict = "sent" THEN 2
    ELSE IF g.msg_delete = "sent" THEN 1
    ELSE 0

\* C12: in the flow of one update the violation is recorded before the
\* delete-message request, that request has returned before restrict-user is
\* requested, and the notice and the warning are sent only after
\* restrict-user returned success; the flow moves one stage at a time
\* whatever the other flows do.
C12_FixedStepOrder ==
    [][\A e \in Events :
          LET before == FlowStage(gw[e])
              after == FlowStage(gw'[e])
          IN  /\ after \in {before, before + 1}
              /\ (before = 0 /\ after = 1) =>
                    /\ handler'[e].violation_count >= 1
                    /\ Len(user_violations'[handler'[e].user_id]) >= 1
                    /\ gw'[e].restrict = "none"
              /\ after >= 1 => handler'[e].violation_count >= 1
              /\ after = 1 => handler'[e].pc = "await_delete"
              /\ after = 2 =>
                    /\ gw'[e].msg_delete \in {"ok", "failed"}
                    /\ handler'[e].pc = "await_restrict"
              /\ after = 3 =>
                    /\ gw'[e].msg_delete \in {"ok", "failed"}
                    /\ handler'[e].pc = "done"
              /\ (ntask'[e] # "none" \/ wtask'[e] # "none") =>
                    /\ after = 3
                    /\ gw'[e].restrict = "ok"
              /\ gw'[e].msg_delete = "none" => after = 0]_vars

\* Two flows of one user interleaved: the second update's notice is posted
\* while the first update is still waiting for restrict-user.
C12_Witness ==
    /\ FlowStage(gw[1]) = 2
    /\ FlowStage(gw[2]) = 3
    /\ handler[1].user_id = handler[2].user_id
    /\ ntask[2] = "done"
    /\ wtask[2] = "sending"

\* The update is not moderated: no text, no sender, or no forbidden term in
\* the lower-cased text.
Ignorable(text, from_user) ==
    \/ text = None
    \/ from_user = NoUser
    \/ \A i \in 1..Len(forbidden_words) : ~IsSubstring(forbidden_words[i], Lower(text))

\* The ledger, the table and the tasks are untouched and no delete-message,
\* restrict-user, group-notice or private-warning request is issued.
CoreUntouched ==
    /\ UNCHANGED <<user_violations, admin_notifications, ntask, wtask, dtask,
                   next_message_id>>
    /\ \A e \in Events :
          /\ gw'[e].msg_delete = gw[e].msg_delete
          /\ gw'[e].restrict = gw[e].restrict
          /\ gw'[e].restrict_duration = gw[e].restrict_duration
          /\ gw'[e].notice_id = gw[e].notice_id

\* C13: handling an update with no text, no sender or no forbidden term, or
\* an update from a private chat, leaves the ledger and the table unchanged
\* and issues no moderation request; a private update only gets the reply.
C13_IgnoredUpdatesChangeNothing ==
    [][/\ \A e \in Events, text \in Texts, from_user \in Users \cup {NoUser},
            chat_id \in Chats :
            (Ignorable(text, from_user)
               /\ HandleGroupMessage(e, text, from_user, chat_id)) =>
              /\ CoreUntouched
              /\ gw' = gw
              /\ handler'[e].pc = "returned"
       /\ \A e \in Events :
            (handler[e].pc = "idle" /\ handler'[e].pc = "await_answer") =>
              /\ CoreUntouched
              /\ gw'[e].answer = "sent"
       /\ \A e \in Events :
            (handler[e].pc = "await_answer" /\ handler'[e].pc # "await_answer") =>
              /\ CoreUntouched
              /\ handler'[e].pc = "answered"
       /\ \A e \in Events :
            handler'[e].pc \in {"returned", "await_answer", "answered"} =>
              /\ gw'[e].msg_delete = "none"
              /\ gw'[e].restrict = "none"
              /\ gw'[e].notice_id = 0
              /\ ntask'[e] = "none"
              /\ wtask'[e] = "none"
              /\ dtask'[e].pc = "none"]_vars

\* A private update was answered while the first update's violation and
\* pending notice are in place.
C13_Witness ==
    /\ Moderated(1)
    /\ handler[2].pc = "answered"
    /\ Len(user_violations[handler[1].user_id]) = 1
    /\ HasKey(admin_notifications, handler[1].user_id)

\* The user for whom the notice with message id m was posted.
NoticeOwner(g, h, m) ==
    LET e == CHOOSE x \in Events : g[x].notice_id = m IN h[e].user_id

\* Keys of the table whose entry is a notice posted for user u.
EntriesOf(d, g, h, u) ==
    {k \in DOMAIN d : NoticeOwner(g, h, d[k].message_id) = u}

\* C15: the table never holds more than one entry for a user, and a publish
\* for a user who already has an entry puts the new notice in place of the
\* old one: the table keeps its size and the old message id is no longer
\* stored.
C15_OneEntryPerUser ==
    [][/\ DOMAIN admin_notifications' \subseteq Users
       /\ \A u \in Users :
            /\ Cardinality(EntriesOf(admin_notifications', gw', handler', u)) <= 1
            /\ EntriesOf(admin_notifications', gw', handler', u) \subseteq {u}
       /\ \A e \in Events :
            (ntask[e] = "sending" /\ ntask'[e] = "done") =>
              LET u == handler[e].user_id
              IN  /\ DOMAIN admin_notifications' = DOMAIN admin_notifications \cup {u}
                  /\ admin_notifications'[u].message_id = gw'[e].notice_id
                  /\ HasKey(admin_notifications, u) =>
                        /\ Cardinality(DOMAIN admin_notifications') =
                              Cardinality(DOMAIN admin_notifications)
                        /\ \A k \in DOMAIN admin_notifications' :
                              admin_notifications'[k].message_id #
                                admin_notifications[u].message_id
                  /\ \A v \in DOMAIN admin_notifications \ {u} :
                        admin_notifications'[v] = admin_notifications[v]]_vars

\* Two notices were posted for one user and both deletion tasks are still
\* asleep: the table holds the second notice only.
C15_Witness ==
    \E u \in Users :
        /\ handler[1].user_id = u
        /\ handler[2].user_id = u
        /\ gw[1].notice_id # 0
        /\ gw[2].notice_id # 0
        /\ dtask[1].pc = "sleeping"
        /\ dtask[2].pc = "sleeping"
        /\ DOMAIN admin_notifications = {u}
        /\ admin_notifications[u].message_id = next_message_id - 1

\* C16: when a deletion task asks the gateway to delete a notice, at least
\* the duration that notice announces has passed since the notice was posted.
C16_NoEarlyDeletion ==
    [][\A e \in Events :
          (dtask[e].pc = "sleeping" /\ dtask'[e].pc = "await_delete") =>
            LET stored == admin_notifications[dtask[e].user_id]
            IN  now >= stored.start_time + stored.duration]_vars

\* C17: the entry a deletion task removes when the gateway delete call
\* returns is the entry whose message the task asked the gateway to delete.
C17_RemovesTheEntryItDeleted ==
    [][\A e \in Events :
          ( /\ dtask[e].pc = "await_delete"
            /\ dtask'[e].pc # "await_delete"
            /\ HasKey(admin_notifications, dtask[e].user_id)
            /\ ~HasKey(admin_notifications', dtask[e].user_id) )
          => admin_notifications[dtask[e].user_id].message_id =
               dtask[e].message_id]_vars

\* C18: an entry is stored and a deletion task created only in the step in
\* which the gateway returns the posted notice; when bot.send_message fails
\* the table and the deletion tasks stay as they were; every stored entry
\* carries the message id the gateway returned for a notice of that user.
C18_EntryOnlyAfterPost ==
    [][/\ \A e \in Events :
            /\ (ntask[e] = "sending" /\ ntask'[e] = "failed") =>
                  /\ admin_notifications' = admin_notifications
                  /\ dtask' = dtask
                  /\ next_message_id' = next_message_id
                  /\ gw'[e].notice_id = 0
            /\ (dtask[e].pc = "none" /\ dtask'[e].pc # "none") =>
                  /\ ntask[e] = "sending"
                  /\ ntask'[e] = "done"
                  /\ gw'[e].notice_id = next_message_id
                  /\ next_message_id' = next_message_id + 1
            /\ dtask'[e].pc # "none" => (ntask'[e] = "done" /\ gw'[e].notice_id # 0)
       /\ \A u \in DOMAIN admin_notifications' :
            /\ admin_notifications'[u].message_id \in 1..(next_message_id' - 1)
            /\ \E e \in Events :
                  /\ handler'[e].user_id = u
                  /\ ntask'[e] = "done"
                  /\ gw'[e].notice_id = admin_notifications'[u].message_id
                  /\ admin_notifications'[u].chat_id = handler'[e].chat_id
            /\ ( ~HasKey(admin_notifications, u)
                 \/ admin_notifications[u] # admin_notifications'[u] ) =>
                  \E e \in Events :
                      /\ ntask[e] = "sending"
                      /\ ntask'[e] = "done"
                      /\ admin_notifications'[u].message_id = next_message_id]_vars

\* The second notice of a user could not be posted: the entry of the first
\* notice is still stored and only its deletion task exists.
C18_Witness ==
    \E e \in Events, f \in Events :
        /\ handler[e].user_id = handler[f].user_id
        /\ ntask[e] = "done"
        /\ ntask[f] = "failed"
        /\ dtask[f].pc = "none"
        /\ dtask[e].pc = "sleeping"
        /\ HasKey(admin_notifications, handler[e].user_id)
        /\ admin_notifications[handler[e].user_id].message_id = gw[e].notice_id

\* The step in which the handler of update e records a violation.
RecordsViolation(e) == handler[e].pc = "idle" /\ handler'[e].pc = "await_delete"

\* C19: the handling of a forbidden message of a known sender appends one
\* timestamp to the sender's pruned list and touches no other user's list;
\* no later step (a gateway call returning, a timer, the clock) changes the
\* lists, so a violation counts whether or not its message.delete() or its
\* restriction succeeded: every moderated update's count is one more than
\* the number of the sender's earlier moderated updates inside the window,
\* and its duration is the one the policy gives for that count.
C19_ViolationAlwaysRecorded ==
    [][/\ \A e \in Events :
            RecordsViolation(e) =>
                LET u == handler'[e].user_id
                    Fresh(timestamp) == now - timestamp < VIOLATION_WINDOW
                    kept == SelectSeq(user_violations[u], Fresh)
                IN  /\ u \in Users
                    /\ user_violations'[u] = Append(kept, now)
                    /\ \A v \in Users \ {u} :
                          user_violations'[v] = user_violations[v]
       /\ (\A e \in Events : ~RecordsViolation(e)) =>
            user_violations' = user_violations
       /\ \A f \in Events :
            handler'[f].pc \in {"await_delete", "await_restrict", "done"} =>
                LET earlier ==
                      {e \in Events :
                          /\ e < f
                          /\ handler'[e].pc \in
                                {"await_delete", "await_restrict", "done"}
                          /\ handler'[e].user_id = handler'[f].user_id
                          /\ handler'[f].at - handler'[e].at < VIOLATION_WINDOW}
                IN  /\ handler'[f].violation_count = Cardinality(earlier) + 1
                    /\ handler'[f].duration =
                          get_punishment_duration(Cardinality(earlier) + 1)]_vars

\* Neither the deletion of the message nor the restriction succeeded for the
\* first violation of a user, and the user's next violation is the second.
C19_Witness ==
    \E e \in Events, f \in Events :
        /\ e < f
        /\ handler[e].user_id = handler[f].user_id
        /\ handler[e].pc = "done"
        /\ gw[e].msg_delete = "failed"
        /\ gw[e].restrict = "failed"
        /\ handler[e].violation_count = 1
        /\ handler[f].pc = "await_delete"
        /\ handler[f].violation_count = 2
        /\ handler[f].duration = get_punishment_duration(2)
        /\ Len(user_violations[handler[e].user_id]) = 2

\* C20: every deletion task that was started returns: from its sleep or its
\* gateway call it reaches the end of the coroutine, and it is never left in
\* any other position; when `del` finds no entry because another task of the
\* same user removed it during the gateway call, the task still returns and
\* the table has no entry for the user.
C20_DeletionTasksReturn ==
    /\ \A e \in Events :
          (dtask[e].pc \in {"sleeping", "await_delete"})
             ~> (dtask[e].pc \in {"done", "done_failed"})
    /\ [](\A e \in Events :
            dtask[e].pc \in {"none", "sleeping", "await_delete",
                             "done", "done_failed"})
    /\ [][\A e \in Events :
            (~dtask[e].key_error /\ dtask'[e].key_error) =>
                /\ dtask[e].pc = "await_delete"
                /\ dtask'[e].pc \in {"done", "done_failed"}
                /\ ~HasKey(admin_notifications, dtask[e].user_id)
                /\ ~HasKey(admin_notifications', dtask[e].user_id)]_vars

\* Two tasks of one user were suspended in the gateway delete call for the
\* same notice; one removed the entry and the other found none.
C20_Witness ==
    \E e \in Events, f \in Events :
        /\ e # f
        /\ dtask[e].user_id = dtask[f].user_id
        /\ dtask[e].message_id = dtask[f].message_id
        /\ dtask[e].pc \in {"done", "done_failed"}
        /\ ~dtask[e].key_error
        /\ dtask[f].pc \in {"done", "done_failed"}
        /\ dtask[f].key_error
        /\ ~HasKey(admin_notifications, dtask[f].user_id)

(***************************************************************************)
(* Properties of the ledger (specification SpecLedger).                    *)
(***************************************************************************)
\* Number of timestamps ever recorded for user u that are younger than
\* VIOLATION_WINDOW at time t.
RecordedInWindow(u, t) ==
    Cardinality({i \in 1..Len(probe.recorded[u]) :
                    t - probe.recorded[u][i] < VIOLATION_WINDOW})

\* C4: the value returned by get_violation_count(u) and by add_violation(u)
\* is the number of u's recorded violations whose age at the time of the call
\* is strictly less than VIOLATION_WINDOW (the one just added included).
C4_CountIsRecordsInWindow ==
    probe.op \in {"record", "count"} =>
        /\ probe.ret = RecordedInWindow(probe.user_id, probe.at)
        /\ probe.op = "record" => probe.ret >= 1

\* A user with an earlier violation records one exactly VIOLATION_WINDOW later
\* and gets count 1, while the other user's two records inside the window
\* count 2.
C4_Witness ==
    \E u \in Users, v \in Users :
        /\ u # v
        /\ probe.op = "record"
        /\ probe.user_id = u
        /\ probe.ret = 1
        /\ Len(probe.recorded[u]) = 2
        /\ probe.recorded[u][2] - probe.recorded[u][1] = VIOLATION_WINDOW
        /\ Len(user_violations[v]) >= 1

(***************************************************************************)
(* Properties of the punishment policy (specification SpecPolicy).         *)
(***************************************************************************)
\* C5: get_punishment_duration is defined for every positive count, is
\* non-decreasing, maps 1, 2, 3, 4 to 300, 900, 3600, 86400 seconds and maps
\* every count from 4 up to the duration of count 4.
C5_DurationTable ==
    probe.pc = "applied" =>
        /\ probe.d1 \in Nat
        /\ probe.d2 \in Nat
        /\ probe.c1 <= probe.c2 => probe.d1 <= probe.d2
        /\ probe.c1 = 1 => probe.d1 = 300
        /\ probe.c1 = 2 => probe.d1 = 900
        /\ probe.c1 = 3 => probe.d1 = 3600
        /\ probe.c1 = 4 => probe.d1 = 86400
        /\ (probe.c1 >= 4 /\ probe.c2 = 4) => probe.d1 = probe.d2

\* The policy was applied to a count above the last level and to 4.
C5_Witness ==
    /\ probe.pc = "applied"
    /\ probe.c1 = MaxCount
    /\ probe.c2 = 4
    /\ probe.d1 = 86400

(***************************************************************************)
(* Properties of the term matcher (specification SpecMatch).               *)
(***************************************************************************)
\* Positions in the forbidden list of the terms contained in the lower-cased
\* text.
TermsIn(text) ==
    {i \in 1..Len(forbidden_words) : IsSubstring(forbidden_words[i], Lower(text))}

\* C14: contains_forbidden_word returns (False, None) for an empty text and
\* for a text containing no forbidden term; otherwise it returns True with
\* the first term of the list that is a substring of the lower-cased text.
\* The call leaves the ledger and the table as they were.
C14_FirstTermInListOrder ==
    [][probe'.pc = "applied" =>
          LET text == probe.text
              ret == probe'.ret
          IN  /\ probe'.text = text
              /\ IF Len(text) = 0 \/ TermsIn(text) = {}
                 THEN ret = <<FALSE, None>>
                 ELSE /\ ret[1] = TRUE
                      /\ \E i \in TermsIn(text) :
                            /\ ret[2] = forbidden_words[i]
                            /\ \A k \in TermsIn(text) : i <= k
              /\ UNCHANGED <<user_violations, admin_notifications>>]_vars

\* A text in capitals that contains two terms, the later term of the list
\* first: the earlier term of the list is returned.
C14_Witness ==
    /\ probe.pc = "applied"
    /\ probe.text = <<"A", "h", "m", "o", "q", "K", "O", "'", "T">>
    /\ probe.ret = <<TRUE, W_kot>>

=============================================================================
